---- MODULE Spec2Model ----
(***************************************************************************)
(* Model of the missioncontrol graph-to-code dispatcher                    *)
(* (src/dispatch/trixterdispatcher.py).                                    *)
(*                                                                         *)
(* The code is Python 2 (it reads sys.maxint).  Python values are modelled *)
(* as records: a str is its sequence of characters, a List / Tuple / plain *)
(* list is its sequence of items.  Indexing and iterating a str yield      *)
(* one-character strs, as in Python.                                       *)
(***************************************************************************)
EXTENDS Integers, Sequences, FiniteSets, TLC

VARIABLES
    graph,      \* the node graph held by the script node
    pc,         \* where the dispatcher is: idle, returned or inside a loop
    start,      \* the startnode of the last call (0: none yet)
    result,     \* what get_required_tasks returned
    connected,  \* what get_hierarchy_nodes returned
    processors, \* what get_processors returned
    defaults,   \* the dict object made once for  parameters={}
    fs,         \* the file system: what each path holds
    taskfile,   \* the value of the dispatcher's taskfile plug
    code,       \* the local  code  of the dispatch under way
    exc,        \* the exception the last dispatch ended with
    log,        \* the messages handed to IECore.msg
    app,        \* the missioncontrol application's run
    tasknode    \* one GafferTaskNodeBase instance and its signal handler

vars == <<graph, pc, start, result, connected,
          processors, defaults, fs, taskfile, code, exc, log, app, tasknode>>

\* what the graph queries of the dispatcher leave alone
dispatch_vars ==
    <<processors, defaults, fs, taskfile, code, exc, log, app, tasknode>>

(***************************************************************************)
(* Bounds of the model.                                                    *)
(***************************************************************************)
MaxFan == 2
MaxNameLen == 2

(***************************************************************************)
(* Python values.                                                          *)
(***************************************************************************)
Str(cs) == [kind |-> "str", chars |-> cs, items |-> <<>>]

Mk(k, its) == [kind |-> k, chars |-> <<>>, items |-> its]

\* Stands for "the evaluation never returns" (a loop whose state repeats).
Diverge == [kind |-> "diverge", chars |-> <<>>, items |-> <<>>]

\* len(v)
PyLen(v) == IF v.kind = "str" THEN Len(v.chars) ELSE Len(v.items)

\* v[0]: the first character of a str is a str of length one
Index0(v) == IF v.kind = "str" THEN Str(<<v.chars[1]>>) ELSE v.items[1]

\* iter(v): the items of a container, the characters of a str
Elems(v) ==
    IF v.kind = "str"
    THEN [i \in 1..Len(v.chars) |-> Str(<<v.chars[i]>>)]
    ELSE v.items

\* class Tuple(tuple): a tuple is immutable and is filled by tuple.__new__
\* from the whole argument; Tuple.__init__ ends in object.__init__, which
\* changes nothing, whichever branch it takes.
TupleCtor(iterable) ==
    IF iterable = Diverge THEN Diverge
    ELSE Mk("Tuple", Elems(iterable))

\* class List(list): list.__init__ fills the list from iterable[0] when
\* len(iterable) == 1 and from iterable otherwise.
ListCtor(iterable) ==
    IF iterable = Diverge THEN Diverge
    ELSE IF PyLen(iterable) = 1
         THEN Mk("List", Elems(Index0(iterable)))
         ELSE Mk("List", Elems(iterable))

\* The loop  while len(nodes) == 1: nodes = nodes[0].  When nodes[0] is
\* nodes again (a str of length one) the loop never leaves that state.
RECURSIVE while_len_is_1(_)
while_len_is_1(nodes) ==
    IF PyLen(nodes) # 1 THEN nodes
    ELSE IF Index0(nodes) = nodes THEN Diverge
    ELSE while_len_is_1(Index0(nodes))

reduce_hierarchy_levels(nodes) ==
    IF nodes = Diverge THEN Diverge
    ELSE IF nodes.kind = "List" THEN while_len_is_1(nodes)
    ELSE IF nodes.kind = "Tuple"
         THEN LET n == while_len_is_1(nodes)
              IN  IF n = Diverge THEN Diverge
                  ELSE IF n.kind # "Tuple" THEN TupleCtor(n) ELSE n
    ELSE nodes

(***************************************************************************)
(* Text.  A Python string is a sequence of one-character strings.          *)
(***************************************************************************)
RECURSIVE JoinRepr(_)
JoinRepr(parts) ==
    IF parts = <<>> THEN <<>>
    ELSE IF Len(parts) = 1 THEN parts[1]
    ELSE parts[1] \o <<",", " ">> \o JoinRepr(Tail(parts))

\* str(v) of a str inside a container, a list or a tuple (Python 2)
RECURSIVE py_repr(_)
py_repr(v) ==
    IF v.kind = "str" THEN <<"'">> \o v.chars \o <<"'">>
    ELSE LET parts == [i \in 1..Len(v.items) |-> py_repr(v.items[i])]
         IN  IF v.kind = "Tuple"
             THEN <<"(">> \o JoinRepr(parts)
                  \o (IF Len(parts) = 1 THEN <<",">> ELSE <<>>) \o <<")">>
             ELSE <<"[">> \o JoinRepr(parts) \o <<"]">>

\* string.replace(" ", "")
RemoveSpaces(string) == SelectSeq(string, LAMBDA c : c # " ")

Spaces(n) == [i \in 1..n |-> " "]

\* "    " * current_level
Indentation(current_level) ==
    IF current_level > 0 THEN Spaces(4 * current_level) ELSE <<>>

AlnumChars ==
    {"a", "b", "c", "d", "e", "f", "g", "h", "i", "j", "k", "l", "m",
     "n", "o", "p", "q", "r", "s", "t", "u", "v", "w", "x", "y", "z",
     "0", "1", "2", "3", "4", "5", "6", "7", "8", "9"}

\* prev_char.isalnum(); prev_char starts as the empty string
isalnum(prev_char) == prev_char \in AlnumChars

\* _parse_dict: copies up to the closing brace, escaping double quotes and
\* turning single quotes into escaped double quotes.  raised: string[0] of
\* an empty string (IndexError).
RECURSIVE parse_dict(_, _, _)
parse_dict(temp, depth, string) ==
    IF string = <<>> THEN [temp |-> temp, string |-> string, raised |-> TRUE]
    ELSE LET c      == Head(string)
             depth2 == IF c = "{" THEN depth + 1
                       ELSE IF c = "}" THEN depth - 1 ELSE depth
             temp2  == IF c = "\"" THEN temp \o <<"\\", c>>
                       ELSE IF c = "'" THEN temp \o <<"\\", "\"">>
                       ELSE Append(temp, c)
         IN  IF depth2 = 0
             THEN [temp |-> temp2, string |-> Tail(string), raised |-> FALSE]
             ELSE parse_dict(temp2, depth2, Tail(string))

\* One turn of the loop  while string:  of _indent, on the loop's variables.
indent_step(st) ==
    LET char == Head(st.string)
        d    == IF char = "{" THEN parse_dict(<<"{">>, 1, Tail(st.string))
                ELSE [temp |-> <<>>, string |-> Tail(st.string), raised |-> FALSE]
        s0   == [st EXCEPT !.string = d.string,
                           !.new_string = @ \o d.temp,
                           !.raised = d.raised]
    IN  IF char \in {"[", "("}
        THEN [s0 EXCEPT
                !.new_string =
                    IF isalnum(st.prev_char) THEN Append(@, char)
                    ELSE @ \o <<"\n">> \o Indentation(st.current_level)
                           \o <<char, "\n">>,
                !.current_level = @ + 1,
                !.type_mode = FALSE,
                !.prev_char = char]
        ELSE IF char \in {"]", ")"}
        THEN [s0 EXCEPT
                !.new_string = @ \o <<"\n">>
                                 \o Indentation(st.current_level - 1) \o <<char>>,
                !.current_level = @ - 1,
                !.type_mode = FALSE,
                !.prev_char = char]
        ELSE IF char = ","
        THEN [s0 EXCEPT
                !.new_string = @ \o <<",", "\n">>,
                !.type_mode = FALSE,
                !.prev_char = char]
        ELSE IF char \in {"'", "\""}
        THEN [s0 EXCEPT
                !.new_string =
                    (IF ~st.word_mode /\ st.prev_char # "="
                     THEN @ \o Indentation(st.current_level) ELSE @)
                    \o <<char>>,
                !.word_mode = ~@,
                !.type_mode = FALSE,
                !.prev_char = char]
        ELSE IF st.word_mode
        THEN [s0 EXCEPT
                !.new_string = Append(@, char),
                !.type_mode = FALSE,
                !.prev_char = char]
        ELSE [s0 EXCEPT
                !.new_string =
                    (IF ~st.type_mode /\ st.prev_char # "="
                     THEN @ \o Indentation(st.current_level) ELSE @)
                    \o <<char>>,
                !.type_mode = TRUE,
                !.prev_char = char]

RECURSIVE indent_loop(_)
indent_loop(st) ==
    IF st.string = <<>> \/ st.raised THEN st
    ELSE indent_loop(indent_step(st))

\* _indent(input) for an input whose str() is `text`: the first character is
\* written before the loop, and the loop starts at that character again.
indent(text) ==
    LET string == RemoveSpaces(text)
    IN  indent_loop([string        |-> string,
                     new_string    |-> <<string[1], "\n">>,
                     current_level |-> 2,
                     word_mode     |-> FALSE,
                     type_mode     |-> FALSE,
                     prev_char     |-> "",
                     raised        |-> FALSE]).new_string

\* TaskTemplate.__repr__, the line of the required_tasks field
required_tasks_field(required_tasks) ==
    <<"\n", " ", " ", " ", " ", "r", "e", "q", "u", "i", "r", "e", "d", "_",
      "t", "a", "s", "k", "s", " ", "=", " ">>
    \o indent(py_repr(required_tasks))

(***************************************************************************)
(* The graph: node kinds, names, x positions and, per node, its immediate  *)
(* downstream neighbours in the order the graph gadget reports them.       *)
(***************************************************************************)
Kinds == {"Root", "HierarchyTask", "Serial", "Parallel", "Dot", "Task", "Processor"}

TaskKinds == {"HierarchyTask", "Task"}

\* Mutant: a sort that is not stable, n goes before the nodes of its own x.
RECURSIVE InsertByX_Unstable(_, _, _)
InsertByX_Unstable(g, s, n) ==
    IF s = <<>> THEN <<n>>
    ELSE IF g.x[Head(s)] < g.x[n]
         THEN <<Head(s)>> \o InsertByX_Unstable(g, Tail(s), n)
    ELSE <<n>> \o s

\* sorted(downstream_nodes, key=x): a stable insertion into a sorted prefix
RECURSIVE InsertByX(_, _, _)
InsertByX(g, s, n) ==
    IF s = <<>> THEN <<n>>
    ELSE IF g.x[Head(s)] <= g.x[n] THEN <<Head(s)>> \o InsertByX(g, Tail(s), n)
    ELSE <<n>> \o s

RECURSIVE sorted_by_x(_, _)
sorted_by_x(g, s) ==
    IF s = <<>> THEN <<>>
    ELSE InsertByX(g, sorted_by_x(g, SubSeq(s, 1, Len(s) - 1)), s[Len(s)])

\* graphgadget.connectedNodeGadgets(current, Out, 1)
downstream_nodes(g, current) == sorted_by_x(g, g.out[current])

getName(g, n) == Str(g.name[n])

RECURSIVE get_nodes(_, _)

\* Mutant: a Serial node is wrapped as a Parallel node is.
Branch_SerialAsParallel(g, node) ==
    IF g.kind[node] = "Dot"
    THEN <<reduce_hierarchy_levels(get_nodes(g, node))>>
    ELSE IF g.kind[node] \in {"Serial", "Parallel"}
    THEN <<reduce_hierarchy_levels(ListCtor(get_nodes(g, node)))>>
    ELSE IF g.kind[node] \in TaskKinds
    THEN <<getName(g, node)>>
    ELSE <<>>

\* Mutant: the Dot case is missing, a Dot is ignored like any other node.
Branch_DotIgnored(g, node) ==
    IF g.kind[node] = "Serial"
    THEN <<reduce_hierarchy_levels(TupleCtor(get_nodes(g, node)))>>
    ELSE IF g.kind[node] = "Parallel"
    THEN <<reduce_hierarchy_levels(ListCtor(get_nodes(g, node)))>>
    ELSE IF g.kind[node] \in TaskKinds
    THEN <<getName(g, node)>>
    ELSE <<>>

\* What one downstream node appends to required_tasks: a sequence of no or
\* one value.
Branch(g, node) ==
    IF g.kind[node] = "Dot"
    THEN <<reduce_hierarchy_levels(get_nodes(g, node))>>
    ELSE IF g.kind[node] = "Serial"
    THEN <<reduce_hierarchy_levels(TupleCtor(get_nodes(g, node)))>>
    ELSE IF g.kind[node] = "Parallel"
    THEN <<reduce_hierarchy_levels(ListCtor(get_nodes(g, node)))>>
    ELSE IF g.kind[node] \in TaskKinds
    THEN <<getName(g, node)>>
    ELSE <<>>

RECURSIVE Appended(_, _)
Appended(g, ns) ==
    IF ns = <<>> THEN <<>>
    ELSE Branch(g, Head(ns)) \o Appended(g, Tail(ns))

get_nodes(g, current) ==
    LET appended == Appended(g, downstream_nodes(g, current))
    IN  IF \E i \in 1..Len(appended) : appended[i] = Diverge
        THEN Diverge
        ELSE reduce_hierarchy_levels(
                 Mk("List", ListCtor(Mk("list", <<>>)).items \o appended))

\* Mutant: the result is returned as it is, a single leaf without a list.
get_required_tasks_Bare(g, startnode) == get_nodes(g, startnode)

\* assert graphgadget  failed
AssertionRaised == [kind |-> "AssertionError", chars |-> <<>>, items |-> <<>>]

\* g.gadget: GafferUI.GraphGadget(scriptnode) gave a graph gadget
get_required_tasks(g, startnode) ==
    LET required_tasks == get_nodes(g, startnode)
    IN  IF ~g.gadget THEN AssertionRaised
        ELSE IF required_tasks = Diverge THEN Diverge
        ELSE IF required_tasks.kind \in {"List", "Tuple"} THEN required_tasks
        ELSE Mk("list", <<required_tasks>>)

\* graphgadget.connectedNodeGadgets(startnode, Out, sys.maxint): every node
\* downstream of startnode, each once, in the order the walk meets them.
RECURSIVE Walk(_, _, _)
Walk(g, todo, seen) ==
    IF todo = <<>> THEN seen
    ELSE LET n == Head(todo)
         IN  IF \E i \in 1..Len(seen) : seen[i] = n
             THEN Walk(g, Tail(todo), seen)
             ELSE Walk(g, g.out[n] \o Tail(todo), Append(seen, n))

\* Mutant: the walk stops after one hop.
connectedNodeGadgets_OneHop(g, startnode) == g.out[startnode]

connectedNodeGadgets(g, startnode) == Walk(g, g.out[startnode], <<>>)

\* Gaffer.StandardSet.add: a member already in the set is not added again
StandardSetAdd(set, n) ==
    IF \E i \in 1..Len(set) : set[i] = n THEN set ELSE Append(set, n)

RECURSIVE StandardSetAddAll(_, _)
StandardSetAddAll(set, ns) ==
    IF ns = <<>> THEN set
    ELSE StandardSetAddAll(StandardSetAdd(set, Head(ns)), Tail(ns))

isinstance(g, n, type_filter) == g.kind[n] = type_filter

get_hierarchy_nodes(g, startnode) ==
    LET found == SelectSeq(connectedNodeGadgets(g, startnode),
                           LAMBDA n : isinstance(g, n, "HierarchyTask"))
        added == IF g.gadget THEN StandardSetAddAll(<<>>, found) ELSE <<>>
    IN  IF isinstance(g, startnode, "HierarchyTask")
        THEN StandardSetAdd(added, startnode)
        ELSE added

(***************************************************************************)
(* The graphs of the model.  Node 1 is a HierarchyTask; below it hangs a   *)
(* chain of up to two nodes of any kind, and the last node of the chain    *)
(* has up to MaxFan downstream neighbours.  With `extra` the first node    *)
(* links to the last neighbour as well, so that node is reached by two     *)
(* paths and the first node has two neighbours of its own.  The calls are  *)
(* made on any node of the graph.                                          *)
(***************************************************************************)
XCoords == {10, 20}

StartKinds == {"HierarchyTask"}

ChainKinds == {"Dot", "Serial", "Parallel", "HierarchyTask", "Task", "Processor"}

FanKinds == {"HierarchyTask", "Task", "Processor"}

Chains == {<<>>} \cup {<<a>> : a \in ChainKinds}
              \cup {<<a, b>> : a \in ChainKinds, b \in ChainKinds}

Fans == UNION {[1..f -> [kind : FanKinds, x : XCoords]] : f \in 0..MaxFan}

\* The characters node names are made of.
Alphabet == <<"a", "b", "c", "d", "e", "f", "g", "h", "i", "j", "k", "l", "m",
              "n", "o", "p", "q", "r", "s", "t", "u", "v", "w", "x", "y", "z">>

\* Node i's name: nameLen characters no other node's name holds.
NodeName(i, nameLen) ==
    [k \in 1..nameLen |-> Alphabet[(i - 1) * MaxNameLen + k]]

MkGraph(sk, chain, fan, extra, nameLen) ==
    LET d == Len(chain)
        f == Len(fan)
        n == 1 + d + f
    IN  [kind |-> [i \in 1..n |-> IF i = 1 THEN sk
                                  ELSE IF i <= d + 1 THEN chain[i - 1]
                                  ELSE fan[i - d - 1].kind],
         name |-> [i \in 1..n |-> NodeName(i, nameLen)],
         x    |-> [i \in 1..n |-> IF i > d + 1 THEN fan[i - d - 1].x ELSE 10],
         gadget |-> TRUE,
         out  |-> [i \in 1..n |->
                     IF i <= d
                     THEN (IF i = 1 /\ extra /\ f > 0 THEN <<n>> ELSE <<>>)
                          \o <<i + 1>>
                     ELSE IF i = d + 1 THEN [j \in 1..f |-> d + 1 + j]
                     ELSE <<>>]]

Nodes(g) == DOMAIN g.kind

NoResult == Mk("none", <<>>)

(***************************************************************************)
(* The process and the file system before anything was dispatched.         *)
(***************************************************************************)
\* the default of the taskfile plug, and a path whose directory is missing
DefaultTaskfile == "/tmp/temptasks.py"
MissingDirTaskfile == "/missing/temptasks.py"
Paths == {DefaultTaskfile, MissingDirTaskfile}
DirExists(path) == path = DefaultTaskfile

\* a path nothing was written to
NoFile == [exists |-> FALSE, text |-> <<>>]

\* a dict is a function from its keys
EmptyDict == [k \in {} |-> 0]

NoException == [type |-> "none"]

\* no node of the graph is looked at by itself
NoNode == [pc |-> "none"]
NotRun == [pc |-> "not_run", args |-> <<>>, status |-> "none"]

AtRest ==
    /\ processors = <<>>
    /\ defaults = EmptyDict
    /\ code = <<>>
    /\ exc = NoException
    /\ log = <<>>
    /\ app = NotRun
    /\ tasknode = NoNode

Init ==
    /\ \E sk \in StartKinds, chain \in Chains, fan \in Fans,
          extra \in BOOLEAN, nameLen \in 1..MaxNameLen :
            graph = MkGraph(sk, chain, fan, extra, nameLen)
    /\ pc = "idle"
    /\ start = 0
    /\ result = NoResult
    /\ connected = <<>>
    /\ AtRest
    /\ taskfile = DefaultTaskfile
    /\ fs = [p \in Paths |-> NoFile]

(***************************************************************************)
(* The calls.                                                              *)
(***************************************************************************)
call_get_required_tasks(n) ==
    /\ pc = "idle"
    /\ start' = n
    /\ LET r == get_required_tasks(graph, n)
       IN  IF r = Diverge
           THEN pc' = "reduce_loop" /\ result' = result
           ELSE IF r = AssertionRaised
           THEN pc' = "raised" /\ result' = result
           ELSE pc' = "returned_required_tasks" /\ result' = r
    /\ UNCHANGED <<graph, connected>>
    /\ UNCHANGED dispatch_vars

\* one more turn of  while len(nodes) == 1: nodes = nodes[0]  on a str of
\* length one: nodes is what it was
reduce_loop_iterate ==
    /\ pc = "reduce_loop"
    /\ UNCHANGED vars

call_get_hierarchy_nodes(n) ==
    /\ pc = "idle"
    /\ start' = n
    /\ connected' = get_hierarchy_nodes(graph, n)
    /\ pc' = "returned_hierarchy_nodes"
    /\ UNCHANGED <<graph, result>>
    /\ UNCHANGED dispatch_vars

Next ==
    \/ \E n \in Nodes(graph) : call_get_required_tasks(n)
    \/ reduce_loop_iterate
    \/ \E n \in Nodes(graph) : call_get_hierarchy_nodes(n)

Spec == Init /\ [][Next]_vars

(***************************************************************************)
(* What the graph says, stated without the dispatcher's own walk.          *)
(***************************************************************************)
GroupKinds == {"Dot", "Serial", "Parallel"}

\* the leaves of a value, left to right
RECURSIVE Flatten(_)
RECURSIVE FlattenAll(_)
Flatten(v) == IF v.kind = "str" THEN <<v>> ELSE FlattenAll(v.items)
FlattenAll(vs) ==
    IF vs = <<>> THEN <<>> ELSE Flatten(Head(vs)) \o FlattenAll(Tail(vs))

RECURSIVE Concat(_)
Concat(ss) == IF ss = <<>> THEN <<>> ELSE Head(ss) \o Concat(Tail(ss))

\* the characters of the leaves of a value, left to right
Chars(v) == LET l == Flatten(v) IN Concat([i \in 1..Len(l) |-> l[i].chars])

Range(s) == {s[i] : i \in 1..Len(s)}

Occurrences(s, v) == Cardinality({i \in 1..Len(s) : s[i] = v})

\* the HierarchyTask/Task nodes reached from n through Dot, Serial and
\* Parallel nodes only
RECURSIVE TaskReach(_, _)
TaskReach(g, n) ==
    UNION {IF g.kind[c] \in TaskKinds THEN {c}
           ELSE IF g.kind[c] \in GroupKinds THEN TaskReach(g, c)
           ELSE {} : c \in Range(g.out[n])}

\* the number of such paths from n to the task node t
RECURSIVE PathCount(_, _, _)
RECURSIVE PathCountOver(_, _, _)
PathCount(g, n, t) == PathCountOver(g, g.out[n], t)
PathCountOver(g, cs, t) ==
    IF cs = <<>> THEN 0
    ELSE (IF Head(cs) = t THEN 1
          ELSE IF g.kind[Head(cs)] \in GroupKinds THEN PathCount(g, Head(cs), t)
          ELSE 0) + PathCountOver(g, Tail(cs), t)

\* c comes before c2 among the downstream neighbours of n: smaller x, or
\* the same x and reported earlier
Before(g, n, c, c2) ==
    LET at(m) == CHOOSE i \in 1..Len(g.out[n]) : g.out[n][i] = m
    IN  \/ g.x[c] < g.x[c2]
        \/ g.x[c] = g.x[c2] /\ at(c) < at(c2)

ByXThenDiscovery(g, n) ==
    LET cs == Range(g.out[n])
    IN  [r \in 1..Len(g.out[n]) |->
            CHOOSE c \in cs :
                Cardinality({c2 \in cs : Before(g, n, c2, c)}) = r - 1]

\* the task children of a node, and their names, by x then discovery
TaskChildren(g, n) ==
    SelectSeq(ByXThenDiscovery(g, n), LAMBDA c : g.kind[c] \in TaskKinds)

NamesOf(g, ns) == [i \in 1..Len(ns) |-> getName(g, ns[i])]

\* n has at least `least` HierarchyTask/Task children and no Dot, Serial or
\* Parallel child
LeafGroup(g, n, least) ==
    /\ Len(TaskChildren(g, n)) >= least
    /\ \A c \in Range(g.out[n]) : g.kind[c] \notin GroupKinds

\* the characters of the task names below n, in the order of the walk
RECURSIVE WalkChars(_, _)
RECURSIVE WalkCharsOver(_, _)
WalkChars(g, n) == WalkCharsOver(g, ByXThenDiscovery(g, n))
WalkCharsOver(g, cs) ==
    IF cs = <<>> THEN <<>>
    ELSE (IF g.kind[Head(cs)] \in TaskKinds THEN g.name[Head(cs)]
          ELSE IF g.kind[Head(cs)] \in GroupKinds THEN WalkChars(g, Head(cs))
          ELSE <<>>) \o WalkCharsOver(g, Tail(cs))

\* everything downstream of n
RECURSIVE Closure(_, _)
Closure(g, n) ==
    Range(g.out[n]) \cup UNION {Closure(g, c) : c \in Range(g.out[n])}

Returned == pc = "returned_required_tasks"

(***************************************************************************)
(* C1..C10                                                                 *)
(***************************************************************************)

\* C1: for every acyclic graph and every start node get_required_tasks
\* terminates: no call stays in a loop of _reduce_hierarchy_levels for ever.
C1_Terminates == pc # "reduce_loop"

\* C2: the flattened leaves of get_required_tasks(start) are exactly the
\* whole names of the HierarchyTask/Task nodes reached from start through
\* Dot, Serial and Parallel nodes, and a node reached by one path occurs
\* once.
C2_LeavesAreTheReachableTasks ==
    Returned =>
        LET leaves == Flatten(result)
            tasks  == TaskReach(graph, start)
        IN  /\ Range(leaves) = {getName(graph, t) : t \in tasks}
            /\ \A t \in tasks :
                   PathCount(graph, start, t) = 1
                       => Occurrences(leaves, getName(graph, t)) = 1

\* C3: a Serial node with two or more HierarchyTask/Task children
\* contributes the Tuple of their names in ascending x order, a Parallel
\* node with two or more the List of their names; when that Serial node is
\* the only downstream neighbour of the start node, the result is that
\* Tuple.
C3_SerialTupleParallelList ==
    Returned =>
        /\ \A s \in Range(graph.out[start]) :
               LeafGroup(graph, s, 2) /\ graph.kind[s] \in {"Serial", "Parallel"}
               => LET b     == Branch(graph, s)
                      names == NamesOf(graph, TaskChildren(graph, s))
                  IN  /\ Len(b) = 1
                      /\ b[1].kind = (IF graph.kind[s] = "Serial"
                                      THEN "Tuple" ELSE "List")
                      /\ Len(b[1].items) = Len(names)
                      /\ Range(b[1].items) = Range(names)
                      /\ graph.kind[s] = "Serial" => b[1].items = names
        /\ \A s \in Nodes(graph) :
               /\ graph.out[start] = <<s>>
               /\ graph.kind[s] = "Serial"
               /\ LeafGroup(graph, s, 2)
               => result = Mk("Tuple", NamesOf(graph, TaskChildren(graph, s)))

\* C3's case: the start node's only neighbour is a Serial node whose two
\* task children are reported right to left, and the call returned a Tuple.
C3_Witness ==
    /\ Returned
    /\ \E s \in Nodes(graph) :
           /\ graph.out[start] = <<s>>
           /\ graph.kind[s] = "Serial"
           /\ LeafGroup(graph, s, 2)
           /\ Len(graph.out[s]) = 2
           /\ graph.x[graph.out[s][1]] > graph.x[graph.out[s][2]]
    /\ result.kind = "Tuple"

\* C4: a Parallel node with exactly one HierarchyTask/Task child named n
\* contributes the bare leaf n, a Serial node with exactly one the
\* one-element Tuple (n,); with start -> Parallel -> n the result is the
\* one-element sequence [n].
C4_SingletonCollapse ==
    Returned =>
        \A s \in Range(graph.out[start]) :
            \A c \in Nodes(graph) :
                graph.out[s] = <<c>> /\ graph.kind[c] \in TaskKinds =>
                    /\ graph.kind[s] = "Parallel"
                           => Branch(graph, s) = <<getName(graph, c)>>
                    /\ graph.kind[s] = "Serial"
                           => Branch(graph, s)
                                  = <<Mk("Tuple", <<getName(graph, c)>>)>>
                    /\ graph.kind[s] = "Parallel" /\ graph.out[start] = <<s>>
                           => result.items = <<getName(graph, c)>>

\* C5: collapsing a single-child container keeps the child's own kind: a
\* Parallel over one Serial with two or more leaves contributes the Tuple
\* of the leaves, a Serial over one Parallel with two or more leaves
\* contributes the List of the leaves, bare or as the only element of a
\* Tuple.
C5_CollapseKeepsKind ==
    Returned =>
        \A p \in Range(graph.out[start]) :
            \A s \in Nodes(graph) :
                graph.out[p] = <<s>> /\ LeafGroup(graph, s, 2) =>
                    LET names == NamesOf(graph, TaskChildren(graph, s))
                        b     == Branch(graph, p)
                    IN  /\ graph.kind[p] = "Parallel" /\ graph.kind[s] = "Serial"
                               => b = <<Mk("Tuple", names)>>
                        /\ graph.kind[p] = "Serial" /\ graph.kind[s] = "Parallel"
                               => \/ b = <<Mk("List", names)>>
                                  \/ b = <<Mk("Tuple", <<Mk("List", names)>>)>>

\* C6: at every level the downstream neighbours are taken in ascending x
\* order, neighbours of equal x in the order the graph reports them, so the
\* names in the result stand in the order that (x, discovery order) gives.
C6_OrderByXThenDiscovery ==
    /\ \A n \in Nodes(graph) :
           downstream_nodes(graph, n) = ByXThenDiscovery(graph, n)
    /\ Returned => Chars(result) = WalkChars(graph, start)

\* C6's case: the call returned for a start node whose neighbours are
\* reported against their x order, above a node whose task children share
\* one x.
C6_Witness ==
    /\ Returned
    /\ Len(graph.out[start]) = 2
    /\ graph.x[graph.out[start][1]] > graph.x[graph.out[start][2]]
    /\ \E n \in Range(graph.out[start]) :
           /\ graph.kind[n] \in {"Serial", "Parallel"}
           /\ LeafGroup(graph, n, 2)
           /\ \A c \in Range(graph.out[n]) : graph.x[c] = 20
    /\ Len(Flatten(result)) >= 3

\* The graph with the Dot d taken out from between n and d's neighbours.
Bypass(g, n, d) == [g EXCEPT !.out[n] = g.out[d]]

RECURSIVE SoleLeaf(_, _)
SoleLeaf(g, n) ==
    LET cs == SelectSeq(g.out[n],
                        LAMBDA c : g.kind[c] \in TaskKinds \cup GroupKinds)
    IN  IF Len(cs) # 1 THEN 0
        ELSE IF g.kind[cs[1]] \in TaskKinds THEN cs[1]
        ELSE IF g.kind[cs[1]] = "Dot" THEN SoleLeaf(g, cs[1])
        ELSE 0

\* C8: what get_required_tasks returns is a List, a Tuple or a plain list,
\* never a bare leaf; when a single leaf n is all there is, it returns the
\* one-element sequence [n].
C8_ResultIsListLike ==
    Returned =>
        /\ result.kind \in {"List", "Tuple", "list"}
        /\ SoleLeaf(graph, start) # 0
               => result = Mk("list", <<getName(graph, SoleLeaf(graph, start))>>)

\* C8's case: the call returned for a start node with a single task node
\* below it.
C8_Witness ==
    /\ Returned
    /\ SoleLeaf(graph, start) # 0
    /\ Len(result.items) = 1

\* string with blanks and line ends taken out
RemoveWhitespace(string) == SelectSeq(string, LAMBDA c : c \notin {" ", "\n"})

\* C9: a node with no downstream neighbours, or only ignored ones, yields
\* an empty required-tasks sequence, and the task block's required_tasks
\* field holds an empty list literal.
C9_EmptyRequiredTasks ==
    /\ Returned
    /\ \A c \in Range(graph.out[start]) :
           graph.kind[c] \notin TaskKinds \cup GroupKinds
    => /\ result = Mk("List", <<>>)
       /\ RemoveWhitespace(required_tasks_field(result))
              = <<"r", "e", "q", "u", "i", "r", "e", "d", "_",
                  "t", "a", "s", "k", "s", "=", "[", "]">>

\* C10: get_hierarchy_nodes(start) holds exactly the HierarchyTask nodes
\* downstream of start, and start when it is a HierarchyTask, each once.
C10_HierarchyNodes ==
    pc = "returned_hierarchy_nodes" =>
        /\ Range(connected)
               = {n \in Closure(graph, start) \cup {start} :
                      graph.kind[n] = "HierarchyTask"}
        /\ \A i, j \in 1..Len(connected) : connected[i] = connected[j] => i = j

\* C10's case: the call returned for a HierarchyTask start node with a
\* HierarchyTask that two paths reach, and a node of another kind, below.
C10_Witness ==
    /\ pc = "returned_hierarchy_nodes"
    /\ graph.kind[start] = "HierarchyTask"
    /\ \E n \in Closure(graph, start) :
           /\ graph.kind[n] = "HierarchyTask"
           /\ Cardinality({m \in Nodes(graph) : n \in Range(graph.out[m])}) = 2
    /\ \E n \in Closure(graph, start) : graph.kind[n] # "HierarchyTask"
    /\ Len(connected) = 2

(***************************************************************************)
(* The processor chain of a hierarchy node.                                *)
(*                                                                         *)
(* graph.pnode is the table of the nodes on the processor side: each has a *)
(* kind and the node its "in" plug takes its input from (0: no input).     *)
(* graph.processor[n] is the node the "processor" plug of node n takes its *)
(* input from (0: no input).                                               *)
(***************************************************************************)
MaxChain == 4

\* the node variants a ProcessorPlug connection can lead to: a Box holds a
\* promoted ProcessorPlug, made by ProcessorPlug.createCounterpart
PKinds == {"Dot", "Processor", "Box"}

\* processors.insert(0, current_node)
insert0_AtEnd(procs, current_node) == Append(procs, current_node)

insert0(procs, current_node) == <<current_node>> \o procs

\* the  while current_plug:  loop; Diverge when a turn leaves current_plug
\* as it was
RECURSIVE processors_loop(_, _, _)
processors_loop(g, current_plug, procs) ==
    IF current_plug = 0 THEN Mk("list", procs)
    ELSE LET current_node == g.pnode[current_plug]
         IN  IF current_node.kind = "Dot"
             THEN processors_loop(g, current_node.input, procs)
             ELSE IF current_node.kind = "Processor"
             THEN processors_loop(g, current_node.input,
                                  insert0(procs, current_plug))
             ELSE Diverge

get_processors(g, startnode) ==
    processors_loop(g, g.processor[startnode], <<>>)

\* A parameter of a processor: a NameValuePlug with an "enabled" child.
Parameter(name, enabled, value) ==
    [name |-> name, enabled |-> enabled, value |-> value, default |-> 0]

\* A node of the processor side.
ProcNode(kind, input, name, type, params) ==
    [kind |-> kind, input |-> input, name |-> name, type |-> type,
     scope |-> <<>>, params |-> params]

\* One hierarchy node with a chain of processor-side nodes of the kinds
\* given, kinds[1] next to the hierarchy node.
ChainGraph(kinds) ==
    [kind |-> <<"HierarchyTask">>,
     name |-> <<NodeName(1, MaxNameLen)>>,
     x |-> <<10>>,
     out |-> << <<>> >>,
     gadget |-> TRUE,
     elements_id |-> << <<>> >>,
     per_element |-> <<FALSE>>,
     processor |-> <<IF Len(kinds) = 0 THEN 0 ELSE 1>>,
     pnode |-> [i \in 1..Len(kinds) |->
                  ProcNode(kinds[i], IF i = Len(kinds) THEN 0 ELSE i + 1,
                           <<"P", Alphabet[i]>>, <<"p", "r", "o", "c">>, <<>>)]]

InitChain ==
    /\ \E l \in 0..MaxChain : \E kinds \in [1..l -> PKinds] :
          graph = ChainGraph(kinds)
    /\ pc = "idle"
    /\ start = 0
    /\ result = NoResult
    /\ connected = <<>>
    /\ AtRest
    /\ taskfile = DefaultTaskfile
    /\ fs = [p \in Paths |-> NoFile]

call_get_processors(n) ==
    /\ pc = "idle"
    /\ start' = n
    /\ LET r == get_processors(graph, n)
       IN  IF r = Diverge
           THEN pc' = "processors_loop" /\ processors' = processors
           ELSE pc' = "returned_processors" /\ processors' = r.items
    /\ UNCHANGED <<graph, result, connected, tasknode,
                   defaults, fs, taskfile, code, exc, log, app>>

\* one more turn of  while current_plug:  on a node that is neither a Dot
\* nor a JobtronautProcessor: current_plug is what it was
processors_loop_iterate ==
    /\ pc = "processors_loop"
    /\ UNCHANGED vars

NextChain ==
    \/ \E n \in Nodes(graph) : call_get_processors(n)
    \/ processors_loop_iterate

SpecChain == InitChain /\ [][NextChain]_vars

\* the kinds of the chain of the hierarchy node, nearest first
ChainKindsOf(g) == [i \in 1..Len(g.pnode) |-> g.pnode[i].kind]

\* the Processor nodes of the chain, farthest from the hierarchy node first
RECURSIVE OriginFirst(_, _)
OriginFirst(g, i) ==
    IF i = 0 THEN <<>>
    ELSE IF g.pnode[i].kind = "Processor"
         THEN <<i>> \o OriginFirst(g, i - 1)
         ELSE OriginFirst(g, i - 1)

\* C11: the walk of get_processors ends on every finite acyclic chain,
\* also on one that holds a node that is neither a Dot nor a Processor.
C11_WalkTerminates == pc # "processors_loop"

\* C12: get_processors returns the Processors of the chain, the one
\* farthest from the consumer first and the one next to it last, each once
\* and no Dot among them.
C12_OriginFirst ==
    pc = "returned_processors" =>
        processors = OriginFirst(graph, Len(graph.pnode))

\* Origin -> A -> Dot -> B -> Consumer gave [A, B]
C12_Witness ==
    /\ pc = "returned_processors"
    /\ ChainKindsOf(graph) = <<"Processor", "Dot", "Processor">>
    /\ processors = <<3, 1>>

(***************************************************************************)
(* dispatch: from the submitted node to the text of the task file.         *)
(*                                                                         *)
(* The text is kept as the sequence of its parts: the import line and one  *)
(* part per Task subclass; a part holds what TaskTemplate.__repr__ and     *)
(* ProcessorDefinitionTemplate.__repr__ read when the part is formatted.   *)
(***************************************************************************)
\* d[k] = v  on a dict
DictSet(d, k, v) == [x \in DOMAIN d \cup {k} |-> IF x = k THEN v ELSE d[x]]

\* bool(plug): a plug object is true, whatever value it holds
Truth(plug) == TRUE

\* plug.getChild("value").isSetToDefault()
isSetToDefault(plug) == plug.value = plug.default

\* the loop over the "parameters" plugs of one processor node, run on the
\* dict the template's  parameters  attribute refers to
RECURSIVE parameters_loop(_, _)
parameters_loop(dict, plugs) ==
    IF plugs = <<>> THEN dict
    ELSE LET plug == Head(plugs)
         IN  parameters_loop(
                 IF Truth(plug.enabled) /\ ~isSetToDefault(plug)
                 THEN DictSet(dict, plug.name, plug.value)
                 ELSE dict,
                 Tail(plugs))

\* ProcessorDefinitionTemplate(processor_node.getName()): the name given,
\* self.scope and self.parameters the default objects of the constructor;
\* parameters is held as a reference to that one dict
ProcessorDefinitionTemplate(name) ==
    [name |-> name, scope |-> <<>>, parameters |-> "the default dict"]

\* what ProcessorDefinitionTemplate.__repr__ reads: the dict is read when
\* the text is formatted
ProcessorDefinitionRepr(template, dict) ==
    [name |-> template.name, scope |-> template.scope, parameters |-> dict]

\* the loop over get_processors(hierarchy_node): the templates appended to
\* template.argument_processors and the default dict as the loop leaves it
RECURSIVE argument_processors_loop(_, _, _, _)
argument_processors_loop(g, dict, procs, templates) ==
    IF procs = <<>> THEN [templates |-> templates, dict |-> dict]
    ELSE LET processor_node == g.pnode[Head(procs)]
             processor == [ProcessorDefinitionTemplate(processor_node.name)
                              EXCEPT !.scope = processor_node.scope]
         IN  argument_processors_loop(
                 g, parameters_loop(dict, processor_node.params),
                 Tail(procs), Append(templates, processor))

\* "\n\n\n{}".format(template): one Task subclass
TaskTemplateRepr(g, hierarchy_node, required_tasks, templates, dict) ==
    [name |-> getName(g, hierarchy_node),
     argument_processors |->
         [i \in 1..Len(templates) |->
             ProcessorDefinitionRepr(templates[i], dict)],
     required_tasks |-> required_tasks,
     elements_id |-> g.elements_id[hierarchy_node],
     per_element |-> g.per_element[hierarchy_node]]

ImportLine ==
    [line |-> "from jobtronaut.author import (Task, ProcessorDefinition)"]

\* Mutant: the text is begun anew with every Task subclass.
code_add_Anew(text, template) == <<ImportLine, template>>

\* code += "\n\n\n{}".format(template)
code_add(text, template) == Append(text, template)

\* the loop over all_hierarchy_nodes; "at" names the loop that does not
\* end, when one does not
RECURSIVE hierarchy_nodes_loop(_, _, _, _)
hierarchy_nodes_loop(g, dict, hierarchy_nodes, text) ==
    IF hierarchy_nodes = <<>>
    THEN [at |-> "rendered", code |-> text, dict |-> dict]
    ELSE LET hierarchy_node == Head(hierarchy_nodes)
             required_tasks == get_required_tasks(g, hierarchy_node)
             procs == get_processors(g, hierarchy_node)
         IN  IF required_tasks = AssertionRaised
             THEN [at |-> "raised", code |-> text, dict |-> dict]
             ELSE IF required_tasks = Diverge
             THEN [at |-> "reduce_loop", code |-> text, dict |-> dict]
             ELSE IF procs = Diverge
             THEN [at |-> "processors_loop", code |-> text, dict |-> dict]
             ELSE LET r == argument_processors_loop(g, dict, procs.items,
                                                    <<>>)
                  IN  hierarchy_nodes_loop(
                          g, r.dict, Tail(hierarchy_nodes),
                          code_add(text,
                                   TaskTemplateRepr(g, hierarchy_node,
                                                    required_tasks,
                                                    r.templates, r.dict)))

\* what a path holds
File(text) == [exists |-> TRUE, text |-> text]

AttributeError == [type |-> "AttributeError"]
AssertionError == [type |-> "AssertionError"]
IOError(filename) == [type |-> "IOError", errno |-> 2, filename |-> filename]

\* dispatch, lines 215-247: nodes[0] is None when the caller found no node
\* of the name given
dispatch_render(nodes) ==
    /\ pc = "idle"
    /\ start' = nodes[1]
    /\ IF nodes[1] = 0
       THEN /\ exc' = AttributeError
            /\ pc' = "raised"
            /\ UNCHANGED <<code, defaults>>
       ELSE LET r == hierarchy_nodes_loop(
                         graph, defaults,
                         get_hierarchy_nodes(graph, nodes[1]),
                         <<ImportLine>>)
            IN  /\ pc' = r.at
                /\ code' = r.code
                /\ defaults' = r.dict
                /\ exc' = IF r.at = "raised" THEN AssertionError
                           ELSE NoException
    /\ UNCHANGED <<graph, result, connected, tasknode, processors, fs, taskfile, log>>

\* open(filepath, "w+")
open_w(files, filepath) ==
    IF DirExists(filepath)
    THEN [raised |-> NoException,
          files |-> [files EXCEPT ![filepath] = File(<<>>)]]
    ELSE [raised |-> IOError(filepath), files |-> files]

\* dispatch, lines 247-248
dispatch_open ==
    /\ pc = "rendered"
    /\ LET r == open_w(fs, taskfile)
       IN  /\ fs' = r.files
           /\ exc' = r.raised
           /\ pc' = IF r.raised = NoException THEN "opened" ELSE "raised"
    /\ UNCHANGED <<graph, start, result, connected, tasknode, processors, defaults,
                   taskfile, code, log, app>>

\* dispatch, line 249 and the end of the with block
dispatch_write ==
    /\ pc = "opened"
    /\ fs' = [fs EXCEPT ![taskfile] = File(code)]
    /\ pc' = "dispatched"
    /\ UNCHANGED <<graph, start, result, connected, tasknode, processors, defaults,
                   taskfile, code, exc, log, app>>

\* a caller in the process of the dispatcher (the dispatcher window)
\* submits a node
host_dispatch(n) ==
    /\ app = NotRun
    /\ dispatch_render(<<n>>)
    /\ UNCHANGED app

\* dispatch is back at its caller, by return or by the exception
host_returned ==
    /\ app = NotRun
    /\ pc \in {"dispatched", "raised"}
    /\ pc' = "idle"
    /\ UNCHANGED <<graph, start, result, connected, tasknode, processors, defaults,
                   fs, taskfile, code, exc, log, app>>

(***************************************************************************)
(* The graphs dispatch is run on: a start node, an optional HierarchyTask  *)
(* below it and an optional Task leaf; on the processor side the nodes     *)
(*     1: Processor A    2: Processor B    3: Dot, fed by A    4: Box      *)
(* where B is fed by the Dot or by nothing: Origin -> A -> Dot -> B.       *)
(***************************************************************************)
ParamValues == {0, 1}

\* the values of the "type" plugs of the two processors
TypeA == <<"p", "r", "o", "c", "A">>
TypeB == <<"p", "r", "o", "c", "B">>

ProcessorSide(aName, aParam, bParam, bFed) ==
    <<ProcNode("Processor", 0, aName, TypeA, <<aParam>>),
      ProcNode("Processor", IF bFed THEN 3 ELSE 0, TypeB, TypeB, <<bParam>>),
      ProcNode("Dot", 1, <<"D", "t">>, <<>>, <<>>),
      ProcNode("Box", 0, <<"B", "x">>, <<>>, <<>>)>>

\* the nodes a "processor" plug is connected to: none, A, B or the Box
ProcessorInputs == {0, 1, 2, 4}

DispatchGraph(sk, chain, fan, inputs, pnodes) ==
    LET g == MkGraph(sk, chain, fan, FALSE, MaxNameLen)
    IN  [kind |-> g.kind, name |-> g.name, x |-> g.x, out |-> g.out,
         gadget |-> g.gadget,
         elements_id |-> [n \in Nodes(g) |-> <<>>],
         per_element |-> [n \in Nodes(g) |-> FALSE],
         processor |-> [n \in Nodes(g) |->
                          IF g.kind[n] = "HierarchyTask" /\ n <= Len(inputs)
                          THEN inputs[n] ELSE 0],
         pnode |-> pnodes]

DispatchGraphs ==
    {DispatchGraph(sk, chain, fan, inputs,
                   ProcessorSide(aName, Parameter("p", ae, av),
                                 Parameter(bn, be, bv), bFed)) :
        sk \in {"HierarchyTask", "Root"},
        chain \in {<<>>, <<"HierarchyTask">>},
        fan \in {<<>>, <<[kind |-> "Task", x |-> 10]>>},
        inputs \in [1..2 -> ProcessorInputs],
        aName \in {TypeA, <<"m", "y">>},
        ae \in BOOLEAN, av \in ParamValues,
        bn \in {"p", "q"}, be \in BOOLEAN, bv \in ParamValues,
        bFed \in BOOLEAN}

InitDispatch ==
    /\ graph \in DispatchGraphs
    /\ pc = "idle"
    /\ start = 0
    /\ result = NoResult
    /\ connected = <<>>
    /\ AtRest
    /\ taskfile \in Paths
    /\ fs = [p \in Paths |-> NoFile]

NextDispatch ==
    \/ \E n \in Nodes(graph) : host_dispatch(n)
    \/ dispatch_open
    \/ dispatch_write
    \/ host_returned
    \/ processors_loop_iterate

SpecDispatch == InitDispatch /\ [][NextDispatch]_vars

(***************************************************************************)
(* What was emitted, set against the processor nodes it was made from.     *)
(***************************************************************************)
\* dispatch has formatted the whole text
Rendered == pc = "rendered"

\* the hierarchy node the k-th Task subclass of the text was made from
HierarchyNodeOf(k) == get_hierarchy_nodes(graph, start)[k]

\* the processor node behind the j-th ProcessorDefinition of the k-th Task
\* subclass
ProcessorNodeOf(k, j) ==
    graph.pnode[get_processors(graph, HierarchyNodeOf(k)).items[j]]

\* the ProcessorDefinitions of the text: <<k, j>> for the j-th of the k-th
\* Task subclass
Emitted ==
    {kj \in (1..(Len(code) - 1)) \X (1..Len(graph.pnode)) :
        kj[2] <= Len(code[kj[1] + 1].argument_processors)}

EmittedDefinition(kj) == code[kj[1] + 1].argument_processors[kj[2]]

PlugsOf(node) == Range(node.params)

\* C13: a parameter is in the emitted parameters of its ProcessorDefinition
\* exactly when its enabled flag is set and its value is not the default,
\* and then with the value set.
C13_EnabledAndNonDefault ==
    Rendered =>
        \A kj \in Emitted : \A plug \in PlugsOf(ProcessorNodeOf(kj[1], kj[2])) :
            LET parameters == EmittedDefinition(kj).parameters
            IN  /\ plug.name \in DOMAIN parameters
                     <=> (plug.enabled /\ plug.value # plug.default)
                /\ plug.name \in DOMAIN parameters
                     => parameters[plug.name] = plug.value

\* C14: the parameters of an emitted ProcessorDefinition come from its own
\* Processor node only: every entry is a parameter of that node with the
\* value that node holds.
C14_OwnParametersOnly ==
    Rendered =>
        \A kj \in Emitted :
            LET parameters == EmittedDefinition(kj).parameters
            IN  \A name \in DOMAIN parameters :
                    \E plug \in PlugsOf(ProcessorNodeOf(kj[1], kj[2])) :
                        plug.name = name /\ plug.value = parameters[name]

\* C15: a dispatch of the node the dispatch before it was run on, in the
\* same process and on the same graph, formats the text the task file
\* holds from that dispatch.
C15_Idempotent ==
    [][(pc = "idle" /\ pc' = "rendered" /\ start' = start
            /\ fs[taskfile].exists)
          => code' = fs[taskfile].text]_vars

\* C16: the name of an emitted ProcessorDefinition is the value of the
\* "type" plug of its Processor node, whatever the node is called.
C16_NameIsType ==
    Rendered =>
        \A kj \in Emitted :
            EmittedDefinition(kj).name = ProcessorNodeOf(kj[1], kj[2]).type

\* C17: the task file changes in one step from what it held to the whole
\* new text; it never holds anything else.
C17_AllOrNothing ==
    [][fs' # fs => fs'[taskfile] = File(code)]_vars

\* C19: a dispatch that finds no HierarchyTask from the submitted node ends
\* with an error; it does not go on to write the task file.
C19_NoTargetsIsAnError ==
    (start # 0 /\ get_hierarchy_nodes(graph, start) = <<>>)
        => pc \notin {"rendered", "opened", "dispatched"}

(***************************************************************************)
(* The missioncontrol application in dispatch mode                         *)
(* (src/apps/missioncontrol/missioncontrol-1.py).                          *)
(*                                                                         *)
(* args.nodes holds, for each name given, the node scriptNode.descendant   *)
(* finds for it, 0 (None) when there is none; args.settings is the flat    *)
(* list of strs.                                                           *)
(***************************************************************************)
Msg(context, message, about) ==
    [level |-> "Error", context |-> context, message |-> message,
     about |-> about]

\* key.lstrip("-")
RECURSIVE lstrip(_, _)
lstrip(string, char) ==
    IF string # <<>> /\ Head(string) = char
    THEN lstrip(Tail(string), char) ELSE string

startswith(string, prefix) ==
    /\ Len(string) >= Len(prefix)
    /\ SubSeq(string, 1, Len(prefix)) = prefix

\* key.partition(sep)[-1]  for a key that starts with sep
partition_last(string, sep) == SubSeq(string, Len(sep) + 1, Len(string))

DispatcherPrefix == <<"d", "i", "s", "p", "a", "t", "c", "h", "e", "r", ".">>
TaskfileName == <<"t", "a", "s", "k", "f", "i", "l", "e">>
PerElementName == <<"p", "e", "r", "_", "e", "l", "e", "m", "e", "n", "t">>

None == [found |-> FALSE]

\* parent.descendant(identifier): the plugs the model holds are the
\* dispatcher's taskfile and the per_element plug of every hierarchy node
descendant(g, parent, identifier) ==
    IF parent = "dispatcher"
    THEN IF identifier = TaskfileName
         THEN [found |-> TRUE, parent |-> parent, node |-> 0,
               type |-> "str", settable |-> TRUE]
         ELSE None
    ELSE LET ns == {n \in Nodes(g) :
                      /\ g.kind[n] = "HierarchyTask"
                      /\ identifier = g.name[n] \o <<".">> \o PerElementName}
         IN  IF ns = {} THEN None
             ELSE [found |-> TRUE, parent |-> parent,
                   node |-> CHOOSE n \in ns : TRUE,
                   type |-> "bool", settable |-> TRUE]

\* the value strs the runs are given
ValuePath == Str(<<"'", "/", "m", "i", "s", "s", "i", "n", "g", "/", "t", "e", "m", "p", "t", "a", "s", "k", "s", ".", "p", "y", "'">>)
ValueTrue == Str(<<"T", "r", "u", "e">>)
ValueOops == Str(<<"o", "o", "p", "s">>)

\* eval(value)
eval(value) ==
    IF value = ValuePath
    THEN [raised |-> FALSE, type |-> "str", path |-> MissingDirTaskfile,
          bool |-> FALSE]
    ELSE IF value = ValueTrue
    THEN [raised |-> FALSE, type |-> "bool", path |-> "", bool |-> TRUE]
    ELSE [raised |-> TRUE, type |-> "NameError", path |-> "",
          bool |-> FALSE]

\* __setValue on the state st = [graph, taskfile, log, status]
setValue(st, identifier, value, parent) ==
    LET plug == descendant(st.graph, parent, identifier)
        v == eval(value)
    IN  IF ~plug.found
        THEN [st EXCEPT !.status = "1",
                        !.log = Append(@, Msg("missioncontrol dispatch",
                                              "does not contain a plug named",
                                              Str(identifier)))]
        ELSE IF ~plug.settable
        THEN [st EXCEPT !.status = "1",
                        !.log = Append(@, Msg("missioncontrol dispatch",
                                              "cannot be set",
                                              Str(identifier)))]
        ELSE IF v.raised \/ v.type # plug.type
        THEN [st EXCEPT !.status = "1",
                        !.log = Append(@, Msg("missioncontrol dispatch: setting",
                                              "str(exception)",
                                              Str(identifier)))]
        ELSE IF plug.parent = "dispatcher"
        THEN [st EXCEPT !.status = "0", !.taskfile = v.path]
        ELSE [st EXCEPT !.status = "0",
                        !.graph.per_element[plug.node] = v.bool]

\* the loop of __applySettings from entry i on
RECURSIVE settings_loop(_, _, _)
settings_loop(st, settings, i) ==
    IF i > Len(settings) THEN [st EXCEPT !.status = "None"]
    ELSE LET key == lstrip(settings[i].chars, "-")
             value == settings[i + 1]
             after ==
                 IF startswith(key, DispatcherPrefix)
                 THEN setValue(st, partition_last(key, DispatcherPrefix),
                               value, "dispatcher")
                 ELSE setValue(st, key, value, "scriptNode")
         IN  IF after.status # "0" THEN after
             ELSE settings_loop(after, settings, i + 2)

applySettings(st, settings) ==
    IF Len(settings) % 2 = 1
    THEN [st EXCEPT !.status = "1",
                    !.log = Append(@, Msg("missioncontrol dispatch",
                                          "must have matching entry/value pairs",
                                          NoException))]
    ELSE settings_loop(st, settings, 1)

\* _run in dispatch mode up to the call of the dispatcher: the values
\* __applySettings and __dispatch return are dropped
run(args) ==
    /\ app = NotRun
    /\ pc = "idle"
    /\ IF Len(args.nodes) = 0
       THEN /\ log' = Append(log, Msg("missioncontrol dispatch",
                                      "No nodes were specified.",
                                      NoException))
            /\ app' = [pc |-> "returned", args |-> args, status |-> "1"]
            /\ UNCHANGED <<graph, taskfile>>
       ELSE LET st == applySettings([graph |-> graph, taskfile |-> taskfile,
                                     log |-> log, status |-> "None"],
                                    args.settings)
            IN  /\ graph' = st.graph
                /\ taskfile' = st.taskfile
                /\ log' = st.log
                /\ app' = [pc |-> "dispatching", args |-> args,
                           status |-> "none"]
    /\ UNCHANGED <<pc, start, result, connected, tasknode, processors, defaults, fs,
                   code, exc>>

\* __dispatch: self.dispatcher.dispatch(nodes)
app_dispatch ==
    /\ app.pc = "dispatching"
    /\ dispatch_render(app.args.nodes)
    /\ UNCHANGED app

\* __dispatch returns 0 and _run ends without a return statement
app_dispatch_returned ==
    /\ app.pc = "dispatching"
    /\ pc = "dispatched"
    /\ pc' = "idle"
    /\ app' = [app EXCEPT !.pc = "returned", !.status = "None"]
    /\ UNCHANGED <<graph, start, result, connected, tasknode, processors, defaults,
                   fs, taskfile, code, exc, log>>

\* except Exception: the message names every node by node.relativeName,
\* which a None does not have; otherwise __dispatch returns 1 and _run
\* ends without a return statement
app_dispatch_raised ==
    /\ app.pc = "dispatching"
    /\ pc = "raised"
    /\ pc' = "idle"
    /\ IF \E i \in 1..Len(app.args.nodes) : app.args.nodes[i] = 0
       THEN /\ app' = [app EXCEPT !.pc = "returned", !.status = "raised"]
            /\ log' = log
       ELSE /\ app' = [app EXCEPT !.pc = "returned", !.status = "None"]
            /\ log' = Append(log,
                             Msg("missioncontrol dispatch : dispatching",
                                 "traceback", exc))
    /\ UNCHANGED <<graph, start, result, connected, tasknode, processors, defaults,
                   fs, taskfile, code, exc>>

\* The runs: the graphs, node lists and settings they are given.
AppGraphs ==
    {DispatchGraph(sk, below[1], below[2], <<input, 0>>,
                   ProcessorSide(TypeA, Parameter("p", TRUE, 1),
                                 Parameter("q", TRUE, 0), FALSE)) :
        sk \in {"HierarchyTask", "Root"}, input \in {1, 4},
        below \in {<< <<>>, <<>> >>,
                   << <<"HierarchyTask">>,
                      <<[kind |-> "HierarchyTask", x |-> 10]>> >>}}

KeyTaskfile == Str(<<"-">> \o DispatcherPrefix \o TaskfileName)
KeyNoPlug == Str(DispatcherPrefix \o <<"n", "o">>)
KeyPerElement == Str(NodeName(1, MaxNameLen) \o <<".">> \o PerElementName)

Keys == {KeyTaskfile, KeyNoPlug, KeyPerElement}
Values == {ValuePath, ValueTrue, ValueOops}

SettingsLists ==
    {<<>>} \cup {<<k>> : k \in Keys}
           \cup {<<k, v>> : k \in Keys, v \in Values}
           \cup {<<k, v, l, w>> : k \in Keys, v \in Values,
                                  l \in Keys, w \in Values}

NodeLists(g) ==
    {<<>>, <<1>>, <<0>>, <<1, 0>>} \cup {<<n, 1>> : n \in Nodes(g) \ {1}}

InitApp ==
    /\ graph \in AppGraphs
    /\ pc = "idle"
    /\ start = 0
    /\ result = NoResult
    /\ connected = <<>>
    /\ AtRest
    /\ taskfile = DefaultTaskfile
    /\ fs = [p \in Paths |-> NoFile]

NextApp ==
    \/ \E nodes \in NodeLists(graph), settings \in SettingsLists :
          run([nodes |-> nodes, settings |-> settings])
    \/ app_dispatch
    \/ dispatch_open
    \/ dispatch_write
    \/ app_dispatch_returned
    \/ app_dispatch_raised
    \/ processors_loop_iterate

SpecApp == InitApp /\ [][NextApp]_vars

\* the run met a failure: a message was logged or the dispatcher raised
Failed == log # <<>> \/ exc # NoException

\* C18: a run of the application that met a failure (an exception in the
\* dispatcher, a settings error, a write error) returns a non-zero status.
C18_FailureReturnsNonZero ==
    (app.pc = "returned" /\ Failed) => app.status = "1"

\* C20: after a run whose write failed for a missing target directory
\* there is no file at the target path and a logged error names the path.
C20_MissingDirectoryReported ==
    (app.pc = "returned" /\ exc.type = "IOError") =>
        /\ ~fs[taskfile].exists
        /\ \E i \in 1..Len(log) : log[i].about = IOError(taskfile)

(***************************************************************************)
(* The formatting pass on the required tasks of a call.                    *)
(***************************************************************************)
\* C22: _indent only changes whitespace: its output with all whitespace
\* removed is its input with the spaces removed, for the required tasks of
\* every call, the empty list among them.
C22_IndentOnlyChangesWhitespace ==
    Returned =>
        RemoveWhitespace(indent(py_repr(result)))
            = RemoveSpaces(py_repr(result))

(***************************************************************************)
(* The text of one Task subclass, TaskTemplate.__repr__, line by line: a   *)
(* line holds the name of its field and the characters after " = " (for    *)
(* the class line the name of the class).  The argument_processors line    *)
(* holds the parts of its ProcessorDefinitions.                            *)
(***************************************************************************)
Line(field, value) == [field |-> field, value |-> value]

\* bool(s) of a str
StrTruth(string) == string # <<>>

\* "\n    elements_id = {}".format(self.elements_id) if self.elements_id
elements_id_line(elements_id) ==
    IF StrTruth(elements_id) THEN <<Line("elements_id", elements_id)>>
    ELSE <<>>

FlagsValue == <<"T", "a", "s", "k", ".", "F", "l", "a", "g", "s", ".", "P", "E", "R", "_", "E", "L", "E", "M", "E", "N", "T">>

\* Mutant: the flags line is written whatever per_element holds.
flags_line_Always(per_element) == <<Line("flags", FlagsValue)>>

\* "\n    flags = Task.Flags.PER_ELEMENT" if self.per_element else ""
flags_line(per_element) ==
    IF per_element THEN <<Line("flags", FlagsValue)>> ELSE <<>>

TaskTemplateText(template) ==
    <<Line("class", template.name.chars),
      Line("title", template.name.chars)>>
    \o (IF template.argument_processors # <<>>
        THEN <<[field |-> "argument_processors",
                parts |-> template.argument_processors]>>
        ELSE <<>>)
    \o <<Line("required_tasks", indent(py_repr(template.required_tasks)))>>
    \o elements_id_line(template.elements_id)
    \o flags_line(template.per_element)

(***************************************************************************)
(* Dispatches on hierarchy nodes whose attributes differ, with and without *)
(* a graph gadget.                                                         *)
(***************************************************************************)
ElementsIds == {<<>>, <<" ">>, <<"i", "d">>}

\* the title and the description plug of node n
TitleOf(n) == <<"T", Alphabet[n]>>
DescriptionOf(n) == <<"D", Alphabet[n]>>

EmitGraph(sk, chain, fan, elements_id, per_element, gadget) ==
    LET g == DispatchGraph(sk, chain, fan, <<1, 0>>,
                           ProcessorSide(TypeA, Parameter("p", TRUE, 1),
                                         Parameter("q", TRUE, 0), FALSE))
    IN  [kind |-> g.kind, name |-> g.name, x |-> g.x, out |-> g.out,
         gadget |-> gadget,
         title |-> [n \in Nodes(g) |-> TitleOf(n)],
         description |-> [n \in Nodes(g) |-> DescriptionOf(n)],
         elements_id |-> [n \in Nodes(g) |->
                            IF n = 1 THEN elements_id ELSE <<>>],
         per_element |-> [n \in Nodes(g) |->
                            IF n = 1 THEN per_element ELSE FALSE],
         processor |-> g.processor,
         pnode |-> g.pnode]

InitEmit ==
    /\ \E sk \in {"HierarchyTask", "Root"},
          chain \in {<<>>, <<"HierarchyTask">>},
          fan \in {<<>>, <<[kind |-> "Task", x |-> 10]>>},
          elements_id \in ElementsIds,
          per_element \in BOOLEAN, gadget \in BOOLEAN :
            graph = EmitGraph(sk, chain, fan, elements_id, per_element,
                              gadget)
    /\ pc = "idle"
    /\ start = 0
    /\ result = NoResult
    /\ connected = <<>>
    /\ AtRest
    /\ taskfile = DefaultTaskfile
    /\ fs = [p \in Paths |-> NoFile]

NextEmit ==
    \/ \E n \in Nodes(graph) : host_dispatch(n)
    \/ dispatch_open
    \/ dispatch_write
    \/ host_returned

SpecEmit == InitEmit /\ [][NextEmit]_vars

\* the task file holds the text of the dispatch that has just ended
Dispatched == pc = "dispatched"

\* the text of the k-th Task subclass of the task file
BlockText(k) == TaskTemplateText(fs[taskfile].text[k + 1])

HasLine(text, field) == \E i \in 1..Len(text) : text[i].field = field

LineOf(text, field) == text[CHOOSE i \in 1..Len(text) : text[i].field = field]

Quoted(string) == <<"'">> \o string \o <<"'">>

\* C21: without a graph gadget the dispatch ends with an error and writes
\* nothing, whether the submitted node is a HierarchyTask or not.
C21_NoGadgetFails ==
    (start # 0 /\ ~graph.gadget) =>
        /\ pc \notin {"rendered", "opened", "dispatched"}
        /\ ~fs[taskfile].exists

\* C23: the task file holds the import line and then one Task subclass for
\* every node of get_hierarchy_nodes, in the order of that set, each named
\* after its node.
C23_OneBlockPerHierarchyNode ==
    Dispatched =>
        LET text == fs[taskfile].text
            hierarchy_nodes == get_hierarchy_nodes(graph, start)
        IN  /\ Len(text) = 1 + Len(hierarchy_nodes)
            /\ text[1] = ImportLine
            /\ \A k \in 1..Len(hierarchy_nodes) :
                  /\ text[k + 1] # ImportLine
                  /\ LineOf(BlockText(k), "class").value
                         = graph.name[hierarchy_nodes[k]]
            /\ \A k, l \in 1..Len(hierarchy_nodes) :
                  hierarchy_nodes[k] = hierarchy_nodes[l] => k = l

\* two hierarchy nodes were written
C23_Witness ==
    /\ Dispatched
    /\ Len(get_hierarchy_nodes(graph, start)) = 2
    /\ Len(fs[taskfile].text) = 3

\* C24: every Task subclass has a title line and a description line that
\* hold the title and the description of its node as quoted literals.
C24_TitleAndDescription ==
    Dispatched =>
        \A k \in 1..Len(get_hierarchy_nodes(graph, start)) :
            LET text == BlockText(k)
                node == HierarchyNodeOf(k)
            IN  /\ HasLine(text, "title")
                /\ LineOf(text, "title").value = Quoted(graph.title[node])
                /\ HasLine(text, "description")
                /\ LineOf(text, "description").value
                       = Quoted(graph.description[node])

\* C25: a Task subclass has the flags line exactly when per_element of its
\* node is true.
C25_FlagsIffPerElement ==
    Dispatched =>
        \A k \in 1..Len(get_hierarchy_nodes(graph, start)) :
            /\ HasLine(BlockText(k), "flags")
                   <=> graph.per_element[HierarchyNodeOf(k)]
            /\ HasLine(BlockText(k), "flags")
                   => LineOf(BlockText(k), "flags").value = FlagsValue

\* one Task subclass with the flags line and one without it
C25_Witness ==
    /\ Dispatched
    /\ Len(fs[taskfile].text) = 3
    /\ \E k, l \in 1..2 :
          /\ HasLine(BlockText(k), "flags")
          /\ ~HasLine(BlockText(l), "flags")

\* a str of blanks only, or the empty str
Blank(string) == \A i \in 1..Len(string) : string[i] = " "

\* C26: a Task subclass has the elements_id line exactly when elements_id
\* of its node is not blank, and the line holds it as a quoted literal.
C26_ElementsIdIffNonBlank ==
    Dispatched =>
        \A k \in 1..Len(get_hierarchy_nodes(graph, start)) :
            LET text == BlockText(k)
                elements_id == graph.elements_id[HierarchyNodeOf(k)]
            IN  /\ HasLine(text, "elements_id") <=> ~Blank(elements_id)
                /\ HasLine(text, "elements_id")
                       => LineOf(text, "elements_id").value
                              = Quoted(elements_id)

(***************************************************************************)
(* The run of the application: the nodes submitted and the settings.       *)
(***************************************************************************)
\* the class names of the Task subclasses of the task file
EmittedNames ==
    {LineOf(BlockText(k), "class").value :
        k \in 1..(Len(fs[taskfile].text) - 1)}

\* C27: the task file holds a Task subclass for every HierarchyTask found
\* from any of the submitted nodes, not only from the first.
C27_EverySubmittedNode ==
    (app.pc = "dispatching" /\ Dispatched) =>
        \A i \in 1..Len(app.args.nodes) :
            app.args.nodes[i] # 0 =>
                \A h \in Range(get_hierarchy_nodes(graph, app.args.nodes[i])) :
                    graph.name[h] \in EmittedNames

\* __applySettings or __setValue has logged an error
SettingsError ==
    \E i \in 1..Len(log) :
        log[i].message \in {"must have matching entry/value pairs",
                            "does not contain a plug named",
                            "cannot be set", "str(exception)"}

\* C28: after a settings error dispatcher.dispatch is not called and the
\* run returns a non-zero status; with an odd number of settings entries
\* no plug value is changed.
C28_SettingsErrorAborts ==
    /\ SettingsError =>
          /\ app.pc = "dispatching" => pc = "idle"
          /\ app.pc = "returned" => app.status = "1"
    /\ (app # NotRun /\ Len(app.args.settings) % 2 = 1) =>
          /\ taskfile = DefaultTaskfile
          /\ \A n \in Nodes(graph) : ~graph.per_element[n]

(***************************************************************************)
(* temporary_attribute_value and the handler of plugInputChangedSignal of  *)
(* GafferTaskNodeBase (src/nodes/base.py).                                 *)
(*                                                                         *)
(* tasknode.dict is the instance __dict__ of the node; tasknode.cm is the  *)
(* generator of the with statement under way: the attribute, replaced and  *)
(* old_value, and the __dict__ the with statement found ("before").        *)
(* tasknode.inputs are the nodes _get_unique_value_inputs finds: whether   *)
(* each has a "task" plug and whether setInput takes it.                   *)
(***************************************************************************)
MaxInputs == 2

IgnoreAttr == "ignore_changed_inputs_signal"
MarkerAttr == "marker"

\* del d[k]
DictDel(d, k) == [x \in DOMAIN d \ {k} |-> d[x]]

NoGenerator ==
    [state |-> "none", attr |-> "", replaced |-> FALSE, old_value |-> "None",
     before |-> EmptyDict]

\* temporary_attribute_value up to its yield
temporary_attribute_value(dict, attr, new_value) ==
    LET replaced == attr \in DOMAIN dict
    IN  [dict |-> DictSet(dict, attr, new_value),
         cm |-> [state |-> "active", attr |-> attr, replaced |-> replaced,
                 old_value |-> IF replaced THEN dict[attr] ELSE "None",
                 before |-> dict]]

\* temporary_attribute_value after its yield
after_yield(dict, cm) ==
    IF ~cm.replaced THEN DictDel(dict, cm.attr)
    ELSE DictSet(dict, cm.attr, cm.old_value)

\* the with statement is left by an exception of its body: the exception
\* is thrown into the generator at the yield, which has no try around it
thrown_at_yield(dict, cm) == dict

InputNodes == [task : BOOLEAN, accepts : BOOLEAN]

InitNode ==
    /\ \E l \in 0..MaxInputs : \E inputs \in [1..l -> InputNodes] :
       \E marker \in {"absent", "set", "unset"} :
          tasknode =
              [pc |-> "idle",
               dict |-> IF marker = "absent"
                        THEN [a \in {IgnoreAttr} |-> FALSE]
                        ELSE [a \in {IgnoreAttr, MarkerAttr} |->
                                 a = MarkerAttr /\ marker = "set"],
               cm |-> NoGenerator,
               inputs |-> inputs,
               todo |-> <<>>,
               preTasks |-> <<>>,
               ignored |-> FALSE]
    /\ graph = ChainGraph(<<>>)
    /\ pc = "idle"
    /\ start = 0
    /\ result = NoResult
    /\ connected = <<>>
    /\ processors = <<>>
    /\ defaults = EmptyDict
    /\ code = <<>>
    /\ exc = NoException
    /\ log = <<>>
    /\ app = NotRun
    /\ taskfile = DefaultTaskfile
    /\ fs = [p \in Paths |-> NoFile]

node_vars == <<graph, pc, start, result, connected, processors, defaults,
               fs, taskfile, code, exc, log, app>>

\* with temporary_attribute_value(obj, "marker", new_value):
with_enter(new_value) ==
    /\ tasknode.pc = "idle"
    /\ LET r == temporary_attribute_value(tasknode.dict, MarkerAttr,
                                          new_value)
       IN  tasknode' = [tasknode EXCEPT !.pc = "with_body",
                                        !.dict = r.dict, !.cm = r.cm]
    /\ UNCHANGED node_vars

\* the body ends and the with statement is left
with_leave ==
    /\ tasknode.pc = "with_body"
    /\ tasknode' = [tasknode EXCEPT
                       !.pc = "idle",
                       !.dict = after_yield(tasknode.dict, tasknode.cm),
                       !.cm.state = "left"]
    /\ UNCHANGED node_vars

\* the body raises
with_raise ==
    /\ tasknode.pc = "with_body"
    /\ tasknode' = [tasknode EXCEPT
                       !.pc = "idle",
                       !.dict = thrown_at_yield(tasknode.dict, tasknode.cm),
                       !.cm.state = "left"]
    /\ UNCHANGED node_vars

PlugTypes == {"GafferDispatch::TaskNode::TaskPlug", "Gaffer::StringPlug"}

\* _on_plug_input_changed(plug) up to the end of _disconnect_all_tasks,
\* called while no handler is running
on_plug_input_changed(typeName) ==
    /\ tasknode.pc = "idle"
    /\ IF typeName = "GafferDispatch::TaskNode::TaskPlug"
       THEN tasknode' = tasknode
       ELSE IF tasknode.dict[IgnoreAttr]
       THEN tasknode' = [tasknode EXCEPT !.ignored = TRUE]
       ELSE LET r == temporary_attribute_value(tasknode.dict, IgnoreAttr,
                                               TRUE)
            IN  tasknode' = [tasknode EXCEPT
                                !.pc = "rewiring",
                                !.dict = r.dict, !.cm = r.cm,
                                !.preTasks = <<>>,
                                !.todo = [i \in 1..Len(tasknode.inputs) |-> i]]
    /\ UNCHANGED node_vars

\* the signal raised by a setInput of the handler, or by anything else,
\* while the handler is rewiring
signal_while_rewiring(typeName) ==
    /\ tasknode.pc = "rewiring"
    /\ IF typeName = "GafferDispatch::TaskNode::TaskPlug"
       THEN tasknode' = tasknode
       ELSE IF tasknode.dict[IgnoreAttr]
       THEN tasknode' = tasknode
       ELSE tasknode' = [tasknode EXCEPT !.pc = "nested rewiring"]
    /\ UNCHANGED node_vars

\* self._connect_task(node)  for the next node of the loop; a setInput
\* that does not take the plug raises
connect_task ==
    /\ tasknode.pc = "rewiring"
    /\ tasknode.todo # <<>>
    /\ LET i == Head(tasknode.todo)
           input == tasknode.inputs[i]
       IN  IF ~input.task
           THEN tasknode' = [tasknode EXCEPT !.todo = Tail(@)]
           ELSE IF input.accepts
           THEN tasknode' = [tasknode EXCEPT !.todo = Tail(@),
                                             !.preTasks = Append(@, i)]
           ELSE tasknode' = [tasknode EXCEPT
                                !.pc = "idle",
                                !.todo = <<>>,
                                !.dict = thrown_at_yield(tasknode.dict,
                                                         tasknode.cm),
                                !.cm.state = "left"]
    /\ UNCHANGED node_vars

\* the loop is through and the with statement is left
rewiring_done ==
    /\ tasknode.pc = "rewiring"
    /\ tasknode.todo = <<>>
    /\ tasknode' = [tasknode EXCEPT
                       !.pc = "idle",
                       !.dict = after_yield(tasknode.dict, tasknode.cm),
                       !.cm.state = "left"]
    /\ UNCHANGED node_vars

NextNode ==
    \/ \E new_value \in BOOLEAN : with_enter(new_value)
    \/ with_leave
    \/ with_raise
    \/ \E typeName \in PlugTypes : on_plug_input_changed(typeName)
    \/ \E typeName \in PlugTypes : signal_while_rewiring(typeName)
    \/ connect_task
    \/ rewiring_done

SpecNode == InitNode /\ [][NextNode]_vars

\* C29: when a with statement of temporary_attribute_value has been left,
\* by the end of its body or by an exception, the attribute is as the with
\* statement found it: its previous value, or absent.
C29_AttributeRestored ==
    tasknode.cm.state = "left" => tasknode.dict = tasknode.cm.before

\* C30: while the handler rewires no nested rewiring starts; while no
\* handler is running ignore_changed_inputs_signal is False, so that no
\* input change is ignored.
C30_GuardHolds ==
    /\ tasknode.pc # "nested rewiring"
    /\ tasknode.pc = "idle" =>
          /\ tasknode.dict[IgnoreAttr] = FALSE
          /\ ~tasknode.ignored
====
